---- MODULE Spec2Model ----
(***************************************************************************)
(* A model of the Neo4j MCP server of src/src/neo4j-client.ts: the shared  *)
(* driver handle (getDriver / closeDriver), the parameter normalisation of *)
(* runCypherQuery (processParams), the schema synthesis of getNeo4jSchema  *)
(* and the two tool handlers registered by main.                           *)
(***************************************************************************)
EXTENDS Integers, Sequences, FiniteSets, TLC

VARIABLES
    \* ---- getNeo4jSchema as a function of the store's answers ----
    nodeTypesResult,              \* records of the label/count query
    nodePropertiesResult,         \* records of the label/properties query
    relationshipTypesResult,      \* records of the relType/count query
    relationshipPropertiesResult, \* records of the relType/properties query
    domain,                       \* the domain argument of the call
    schemaOut,                    \* what getNeo4jSchema returned (parsed JSON)
    schemaPc,                     \* "idle" before the call, "returned" after
    \* ---- runCypherQuery's parameters ----
    params,                       \* the params argument (a JSON object)
    submitted,                    \* the mapping handed to session.run
    paramsPc,                     \* "idle" before the call, "submitted" after
    \* ---- the module's shared handle and the calls in flight ----
    configOk,                     \* NEO4J_URI, NEO4J_USER, NEO4J_PASSWORD all set
    driver,                       \* the module variable: 0 is null, else a handle
    handles,                      \* the handles neo4j.driver() has created
    tasks,                        \* the calls of the exported functions, by start
    \* ---- the server process ----
    mainPc,                       \* where main() is ("off": no server process)
    exitCode                      \* -1 while the process runs, else its status

schemaVars == <<nodeTypesResult, nodePropertiesResult, relationshipTypesResult,
                relationshipPropertiesResult, domain, schemaOut, schemaPc>>

schemaInputs == <<nodeTypesResult, nodePropertiesResult, relationshipTypesResult,
                  relationshipPropertiesResult, domain>>

paramsVars == <<params, submitted, paramsPc>>

clientVars == <<configOk, driver, handles, tasks>>

serverVars == <<mainPc, exitCode>>

vars == <<schemaVars, paramsVars, clientVars, serverVars>>

-----------------------------------------------------------------------------
(* Sequence helpers *)

SeqToSet(s) == {s[i] : i \in 1..Len(s)}

InSeq(x, s) == \E i \in 1..Len(s) : s[i] = x

NoDup(s) == Cardinality(SeqToSet(s)) = Len(s)

\* [...new Set(s)]: the distinct elements in order of first occurrence. A
\* list without repetition is its own answer; otherwise the first
\* occurrences of the first half, then those of the second half that the
\* first half does not hold.
RECURSIVE SetSpread(_)
SetSpread(s) ==
    IF NoDup(s) THEN s
    ELSE LET half == Len(s) \div 2
             left == SubSeq(s, 1, half)
             seen == SeqToSet(left)
         IN SetSpread(left)
              \o SelectSeq(SetSpread(SubSeq(s, half + 1, Len(s))),
                           LAMBDA e : e \notin seen)

-----------------------------------------------------------------------------
(* The static taxonomy *)

DOMAIN_NODE_TYPES ==
    [code |-> <<
        "Codebase", "Package", "Directory", "File", "Module", "Namespace", "Class",
        "Interface", "Enum", "TypeAlias", "Function", "Method", "Constructor",
        "Property", "Variable", "Parameter", "JsxElement", "JsxAttribute", "Test",
        "Component", "Dependency", "TypeDefinition", "ASTNodeInfo", "InterfaceProperty",
        "VueComponent", "ComponentTemplate", "ComponentScript", "ComponentStyle",
        "Prop", "Emit", "ReactiveState", "Composable", "SassVariable", "SassMixin",
        "SassModule">>,
     mind |-> <<
        "Hypothesis", "Reflection", "Insight", "Question", "Decision", "Pattern",
        "Task", "Subtask", "Agent", "Verification", "Result", "Orientation">>,
     crypto |-> <<
        "Layer0", "Layer1", "Layer2", "Layer3", "Token", "InteroperabilitySolution",
        "Organization", "Event", "Person", "DApp", "Protocol", "Validator",
        "GovernanceStructure", "RegulatoryApproach", "TechnicalArchitecture",
        "UserDemographic",
        "L2Sequencer", "L2Validator", "L2DApp", "L2Bridge", "L2SecurityIncident">>,
     media |-> <<
        "Artist", "Album", "Song", "Tour", "Residency", "Award", "Media", "RecordLabel",
        "Event", "Organization", "Product", "Location", "Genre", "LyricSection",
        "Annotation", "Theme", "LinguisticDevice", "Source">>]

DOMAIN_RELATIONSHIP_TYPES ==
    [code |-> <<
        "IMPORTS", "IMPORTS_FROM_PACKAGE", "IMPORTS_TYPES", "IMPORTS_TYPES_FROM_PACKAGE",
        "EXPORTS_LOCAL", "EXPORTS_DEFAULT", "REEXPORTS", "REEXPORTS_FROM_PACKAGE",
        "REEXPORTS_ALL", "EXTENDS", "INTERFACE_EXTENDS", "IMPLEMENTS", "CALLS",
        "CONTAINS", "HAS_METHOD", "HAS_PARAMETER", "HAS_PROPERTY", "REFERENCES_TYPE",
        "REFERENCES_VARIABLE", "DEPENDS_ON", "IS_DECORATED_BY", "TESTS", "RENDERS",
        "USES_HOOK", "AST_PARENT_CHILD", "DEFINES_VARIABLE", "DEFINES_FUNCTION",
        "DEFINES_INTERFACE", "DEFINES_CLASS", "DEFINES_TYPE_ALIAS", "DEFINES_ENUM",
        "DEFINES_NAMESPACE", "DEFINES_MODULE", "DEFINES_COMPONENT",
        "DEFINES_VUE_COMPONENT", "PROVIDES_PROPS", "LISTENS_TO", "USES_SLOT",
        "USES_COMPOSABLE", "IMPORTS_AUTO", "REGISTERS_AUTO", "IMPORTS_SASS",
        "USES_VARIABLE", "INCLUDES_MIXIN">>,
     mind |-> <<
        "SUGGESTS", "BASED_ON", "LEADS_TO", "ANSWERS", "CONTRADICTS", "REFINES",
        "IDENTIFIES", "EVOLVES_TO", "APPLIES_TO", "IMPLEMENTS_DECISION", "ADDRESSES",
        "RESOLVES", "APPLIES", "MODIFIES", "TASK_DEPENDS_ON", "TASK_BLOCKED_BY",
        "DECOMPOSES_TO", "EXECUTED_BY", "VERIFIED_BY">>,
     crypto |-> <<
        "BUILDS_ON", "CONNECTS", "ISSUES", "DEVELOPS", "SUPPORTS", "BRIDGES",
        "PARTNERS_WITH", "COMPETES_WITH", "FORKED_FROM", "INVESTED_IN", "GOVERNS",
        "INFLUENCED_BY", "PARTICIPATES_IN_GOVERNANCE", "CONTRIBUTES_REVENUE_TO",
        "HAS_REGULATORY_APPROACH", "HAS_TECHNICAL_ARCHITECTURE", "HAS_USER_DEMOGRAPHIC",
        "PROVIDES_TECHNOLOGY", "RELATES_TO",
        "SECURES", "L2_BRIDGES", "HOSTS", "AUDITS", "UPGRADES">>,
     media |-> <<
        "BORN_IN", "HAS_FAMILY_RELATIONSHIP", "RELEASED", "CONTAINS", "HEADLINED",
        "SUPPORTED", "COLLABORATED_ON", "FEATURING", "WROTE", "PRODUCED",
        "SIGNED_WITH", "RELEASED_BY", "RECEIVED", "ACTED_IN", "VOICED_IN",
        "APPEARED_IN", "JUDGED", "HOSTED", "PERFORMED_AT", "INFLUENCED_BY",
        "HAS_GENRE", "ENDORSED", "LAUNCHED", "FOUNDED", "SUPPORTS",
        "AMBASSADOR_FOR", "HELD_IN", "MUSIC_VIDEO_FOR", "HAS_LYRICS",
        "IS_ANNOTATED_BY", "REFERENCES_SOURCE", "PROVIDED_BY_USER",
        "EXPLORES_THEME", "IDENTIFIES_THEME", "EMPLOYS_DEVICE", "IDENTIFIES_DEVICE">>]

\* The identifiers the filter of validDomains accepts.
KnownDomains == {"code", "mind", "crypto", "media"}

-----------------------------------------------------------------------------
(* JavaScript objects used as string-keyed maps: a sequence of [key, value] *)
(* entries, the object's own properties in the order JSON.stringify and     *)
(* Object.entries list them, each key held at most once. The objects are    *)
(* created by {} and so inherit from Object.prototype.                      *)

EmptyObj == <<>>

\* The names a plain object inherits: o[k] reads a function for each of
\* them, and Object.prototype itself for "__proto__".
ObjectPrototypeNames ==
    {"constructor", "__proto__", "hasOwnProperty", "isPrototypeOf",
     "propertyIsEnumerable", "toLocaleString", "toString", "valueOf",
     "__defineGetter__", "__defineSetter__", "__lookupGetter__", "__lookupSetter__"}

\* The decimal digits, each at the position of its value plus one.
Digits == <<"0", "1", "2", "3", "4", "5", "6", "7", "8", "9">>

CharAt(k, i) == SubSeq(k, i, i)

IsDigit(c) == \E i \in 1..Len(Digits) : Digits[i] = c

DigitValue(c) == (CHOOSE i \in 1..Len(Digits) : Digits[i] = c) - 1

\* The largest array index, 2^32 - 2.
MaxArrayIndex == "4294967294"

\* a < b as numbers, for numerals without leading zeros: the shorter one, or
\* of two of one length the one with the smaller digit where they first differ.
NumeralLess(a, b) ==
    \/ Len(a) < Len(b)
    \/ /\ Len(a) = Len(b)
       /\ \E i \in 1..Len(a) :
            /\ \A j \in 1..(i - 1) : CharAt(a, j) = CharAt(b, j)
            /\ DigitValue(CharAt(a, i)) < DigitValue(CharAt(b, i))

\* An array-index key: the canonical numeral ("0", or digits that do not
\* start with "0") of a number up to 2^32 - 2. An object lists its
\* array-index keys first, in ascending numeric order, and its other keys
\* after them in insertion order.
IsArrayIndex(k) ==
    /\ k # "" /\ Len(k) <= Len(MaxArrayIndex)
    /\ \A i \in 1..Len(k) : IsDigit(CharAt(k, i))
    /\ Len(k) > 1 => CharAt(k, 1) # "0"
    /\ ~NumeralLess(MaxArrayIndex, k)

\* Key k is listed before key j, whenever the two were added.
ListedBefore(k, j) ==
    IsArrayIndex(k) /\ (IsArrayIndex(j) => NumeralLess(k, j))

ObjKeys(o) == [i \in 1..Len(o) |-> o[i].key]

ObjHasOwn(o, k) == \E i \in 1..Len(o) : o[i].key = k

\* if (o[k]): an own entry (its value, an array, is truthy) or an
\* inherited name.
ObjHas(o, k) == ObjHasOwn(o, k) \/ k \in ObjectPrototypeNames

\* o[k] where k is an own key.
ObjGet(o, k) == o[CHOOSE i \in 1..Len(o) : o[i].key = k].value

\* o[k] = v: overwrite in place when the key exists, add it at its place in
\* the listing otherwise; "__proto__" is the inherited setter, which adds no
\* own key (v, an array, becomes the prototype).
ObjPut(o, k, v) ==
    IF k = "__proto__" THEN o
    ELSE IF ObjHasOwn(o, k)
    THEN [i \in 1..Len(o) |-> IF o[i].key = k THEN [key |-> k, value |-> v] ELSE o[i]]
    ELSE SelectSeq(o, LAMBDA e : ~ListedBefore(k, e.key))
            \o <<[key |-> k, value |-> v]>>
            \o SelectSeq(o, LAMBDA e : ListedBefore(k, e.key))

\* How an evaluation ends: with a value, or with a thrown Error's message.
Returns(v) == [threw |-> FALSE, msg |-> <<>>, value |-> v]

\* none stands where the value would be.
Throws(m, none) == [threw |-> TRUE, msg |-> m, value |-> none]

-----------------------------------------------------------------------------
(* getNeo4jSchema: from the records of the four introspection queries and   *)
(* the domain argument to the object that is serialised and returned.       *)

\* nodeTypesResult.records.map(...)
NodeTypes(records) ==
    [i \in 1..Len(records) |->
        [type |-> records[i].label, count |-> records[i].count]]

\* relationshipTypesResult.records.map(...)
RelationshipTypes(records) ==
    [i \in 1..Len(records) |->
        [type |-> records[i].relType, count |-> records[i].count]]

\* One pass of the loop body that fills nodeProperties / relationshipProperties:
\* if (!acc[name]) acc[name] = []; acc[name] = [...new Set([...acc[name],
\* ...properties])]. For an inherited name the test finds acc[name] set and
\* the spread of what it reads, which is no array, throws a TypeError
\* (notIterable is its message).
MergeProperties(acc, name, properties, notIterable) ==
    LET a1 == IF ~ObjHas(acc, name) THEN ObjPut(acc, name, <<>>) ELSE acc
    IN IF ObjHasOwn(a1, name)
       THEN Returns(ObjPut(a1, name, SetSpread(ObjGet(a1, name) \o properties)))
       ELSE Throws(<<notIterable>>, EmptyObj)

\* The loops: acc is how the passes so far have ended.
RECURSIVE NodePropertiesLoop(_, _)
NodePropertiesLoop(records, acc) ==
    IF records = <<>> \/ acc.threw THEN acc
    ELSE NodePropertiesLoop(Tail(records),
            MergeProperties(acc.value, Head(records).label, Head(records).properties,
                            "nodeProperties[label] is not iterable"))

NodeProperties(records) == NodePropertiesLoop(records, Returns(EmptyObj))

RECURSIVE RelationshipPropertiesLoop(_, _)
RelationshipPropertiesLoop(records, acc) ==
    IF records = <<>> \/ acc.threw THEN acc
    ELSE RelationshipPropertiesLoop(Tail(records),
            MergeProperties(acc.value, Head(records).relType, Head(records).properties,
                            "relationshipProperties[relType] is not iterable"))

RelationshipProperties(records) == RelationshipPropertiesLoop(records, Returns(EmptyObj))

\* The domain argument: absent (undefined), a string, or an array of strings.
NoDomain == [kind |-> "absent", str |-> "", arr |-> <<>>]
StringDomain(s) == [kind |-> "string", str |-> s, arr |-> <<>>]
ArrayDomain(a) == [kind |-> "array", str |-> "", arr |-> a]

\* if (domain): undefined and "" are falsy, every array is truthy.
Truthy(d) == d.kind = "array" \/ (d.kind = "string" /\ d.str # "")

\* Array.isArray(domain) ? domain : [domain]
DomainsOf(d) == IF d.kind = "array" THEN d.arr ELSE <<d.str>>

\* domains.filter(d => ['code', 'mind', 'crypto', 'media'].includes(d))
ValidDomainsDeduped(d) ==
    SetSpread(SelectSeq(DomainsOf(d), LAMBDA x : x \in KnownDomains))

ValidDomains(d) == SelectSeq(DomainsOf(d), LAMBDA x : x \in KnownDomains)

\* The for loop that concatenates the taxonomy lists of the valid domains.
RECURSIVE Gather(_, _)
Gather(table, validDomains) ==
    IF validDomains = <<>> THEN <<>>
    ELSE table[Head(validDomains)] \o Gather(table, Tail(validDomains))

\* ... followed by [...new Set(...)].
AllDomainTypesNoDedup(table, validDomains) == Gather(table, validDomains)

AllDomainTypes(table, validDomains) == SetSpread(Gather(table, validDomains))

AllDomainNodeTypes(validDomains) == AllDomainTypes(DOMAIN_NODE_TYPES, validDomains)

AllDomainRelationshipTypes(validDomains) ==
    AllDomainTypes(DOMAIN_RELATIONSHIP_TYPES, validDomains)

\* completeNodeTypes / completeRelationshipTypes: the live entries whose type
\* is in the union, then a zero entry for every unioned name not in live data.
ZeroEntries(types, allDomainTypes) ==
    LET existing == {types[i].type : i \in 1..Len(types)}
        missing == SelectSeq(allDomainTypes, LAMBDA t : t \notin existing)
    IN [i \in 1..Len(missing) |-> [type |-> missing[i], count |-> 0]]

CompleteTypesUnfiltered(types, allDomainTypes) ==
    types \o ZeroEntries(types, allDomainTypes)

CompleteTypesNoZeroFill(types, allDomainTypes) ==
    SelectSeq(types, LAMBDA nt : InSeq(nt.type, allDomainTypes))

CompleteTypes(types, allDomainTypes) ==
    SelectSeq(types, LAMBDA nt : InSeq(nt.type, allDomainTypes))
        \o ZeroEntries(types, allDomainTypes)

\* filteredNodeProperties / filteredRelationshipProperties: the loop assigns
\* filtered[t] for every t of allDomainTypes in turn, so the object's keys are
\* the names in order of first assignment, each with the live properties
\* when properties[t] is set and [] otherwise. allDomainTypes holds names of
\* the taxonomy only: none is an array index or a name of Object.prototype.
FilteredProperties(properties, allDomainTypes) ==
    LET ks == SetSpread(allDomainTypes)
    IN [i \in 1..Len(ks) |->
          [key |-> ks[i],
           value |-> IF ObjHas(properties, ks[i])
                     THEN ObjGet(properties, ks[i]) ELSE <<>>]]

\* The object handed to JSON.stringify: keys lists the fields it has, in
\* order; domains is meaningful only when "domains" is among them.
FullSchema(nodeTypes, nodeProperties, relationshipTypes, relationshipProperties) ==
    [keys |-> <<"nodeTypes", "nodeProperties",
                "relationshipTypes", "relationshipProperties">>,
     domains |-> <<>>,
     nodeTypes |-> nodeTypes,
     nodeProperties |-> nodeProperties,
     relationshipTypes |-> relationshipTypes,
     relationshipProperties |-> relationshipProperties]

ScopedSchema(validDomains, nodeTypes, nodeProperties, relTypes, relProperties) ==
    LET allDomainNodeTypes == AllDomainNodeTypes(validDomains)
        allDomainRelationshipTypes == AllDomainRelationshipTypes(validDomains)
    IN [keys |-> <<"domains", "nodeTypes", "nodeProperties",
                   "relationshipTypes", "relationshipProperties">>,
        domains |-> validDomains,
        nodeTypes |-> CompleteTypes(nodeTypes, allDomainNodeTypes),
        nodeProperties |-> FilteredProperties(nodeProperties, allDomainNodeTypes),
        relationshipTypes |-> CompleteTypes(relTypes, allDomainRelationshipTypes),
        relationshipProperties |->
            FilteredProperties(relProperties, allDomainRelationshipTypes)]

\* No object: nothing was returned.
NoOutput ==
    [keys |-> <<>>, domains |-> <<>>, nodeTypes |-> <<>>, nodeProperties |-> <<>>,
     relationshipTypes |-> <<>>, relationshipProperties |-> <<>>]

\* The try block from the records on: the two maps and the two loops in the
\* order of the code, then the object; an error of a loop is caught and
\* rethrown as 'Failed to fetch Neo4j schema: <message>'.
GetNeo4jSchemaStrict(ntr, npr, rtr, rpr, d) ==
    LET np == NodeProperties(npr)
        rp == RelationshipProperties(rpr)
    IN IF np.threw THEN Throws(<<"Failed to fetch Neo4j schema">> \o np.msg, NoOutput)
       ELSE IF rp.threw THEN Throws(<<"Failed to fetch Neo4j schema">> \o rp.msg, NoOutput)
       ELSE IF Truthy(d)
       THEN Returns(ScopedSchema(ValidDomains(d), NodeTypes(ntr), np.value,
                                 RelationshipTypes(rtr), rp.value))
       ELSE Returns(FullSchema(NodeTypes(ntr), np.value,
                               RelationshipTypes(rtr), rp.value))

GetNeo4jSchema(ntr, npr, rtr, rpr, d) ==
    LET np == NodeProperties(npr)
        rp == RelationshipProperties(rpr)
    IN IF np.threw THEN Throws(<<"Failed to fetch Neo4j schema">> \o np.msg, NoOutput)
       ELSE IF rp.threw THEN Throws(<<"Failed to fetch Neo4j schema">> \o rp.msg, NoOutput)
       ELSE IF Truthy(d) /\ ValidDomains(d) # <<>>
       THEN Returns(ScopedSchema(ValidDomains(d), NodeTypes(ntr), np.value,
                                 RelationshipTypes(rtr), rp.value))
       ELSE Returns(FullSchema(NodeTypes(ntr), np.value,
                               RelationshipTypes(rtr), rp.value))

-----------------------------------------------------------------------------------------------------------------------------------------------------
(* processParams. A JSON value is a record [t, n, s, keys, kids]: t is its  *)
(* type; a number holds its value in tenths in n (n = 59 is 5.9) and a      *)
(* Neo4j integer holds the integer in n; a string holds its text in s; an   *)
(* object holds its keys, in order, in keys and their values in kids; an    *)
(* array holds its items in kids.                                           *)

Num(tenths) == [t |-> "num", n |-> tenths, s |-> "", keys |-> <<>>, kids |-> <<>>]
Integer(i) == [t |-> "int", n |-> i, s |-> "", keys |-> <<>>, kids |-> <<>>]
Str(x) == [t |-> "str", n |-> 0, s |-> x, keys |-> <<>>, kids |-> <<>>]
Null == [t |-> "null", n |-> 0, s |-> "", keys |-> <<>>, kids |-> <<>>]
Obj(ks, vs) == [t |-> "obj", n |-> 0, s |-> "", keys |-> ks, kids |-> vs]
Arr(items) == [t |-> "arr", n |-> 0, s |-> "", keys |-> <<>>, kids |-> items]

\* Math.floor(value), on tenths.
MathFloor(tenths) == tenths \div 10

\* neo4j.int(Math.floor(value))
Neo4jInt(value) == Integer(MathFloor(value.n))

\* value.map(item => typeof item === 'number' ? neo4j.int(Math.floor(item)) : item)
ProcessArray(items) ==
    [j \in 1..Len(items) |->
        IF items[j].t = "num" THEN Neo4jInt(items[j]) ELSE items[j]]

\* processed[key] = ... for every entry of params, in order. processed is
\* created by {}: the assignment to the key "__proto__" goes to the
\* inherited setter and adds no own key. The keys of params are in the
\* order an object lists them, and so are those of processed.
RECURSIVE ProcessParams(_)
ProcessParams(p) ==
    LET entries == [i \in 1..Len(p.keys) |-> [key |-> p.keys[i], value |-> p.kids[i]]]
        own == SelectSeq(entries, LAMBDA e : e.key # "__proto__")
    IN Obj([i \in 1..Len(own) |-> own[i].key],
           [i \in 1..Len(own) |->
               LET value == own[i].value
               IN IF value.t = "num" THEN Neo4jInt(value)
                  ELSE IF value.t = "obj" THEN ProcessParams(value)
                  ELSE IF value.t = "arr" THEN Arr(ProcessArray(value.kids))
                  ELSE value])

-----------------------------------------------------------------------------
(* The shared handle and the calls of the exported functions. A call is a   *)
(* task: its position (pc), the handle it holds (drv), its session, the     *)
(* store round trips it still has to make, how it settled (outcome) and,    *)
(* for a tool call, the response the handler returned.                      *)

Ok == [threw |-> FALSE, msg |-> <<>>]
Threw(m) == [threw |-> TRUE, msg |-> m]

NoResponse == [sent |-> FALSE, isError |-> FALSE, text |-> <<>>]

NewHandle == [closeCalls |-> 0, closed |-> FALSE]

NewTask(kind, caller) ==
    [kind |-> kind, caller |-> caller, pc |-> "settled", drv |-> 0,
     session |-> "none", opened |-> 0, runs |-> 0,
     outcome |-> Ok, response |-> NoResponse]

MissingConfig ==
    <<"Missing Neo4j connection details in environment variables (NEO4J_URI, NEO4J_USER, NEO4J_PASSWORD)">>

\* getDriver: throws when a connection value is missing, creates a handle
\* when none is held, returns the held one otherwise.
GetDriverThrows == ~configOk

GetDriverCreates == configOk /\ driver = 0

DriverAfterGet == IF GetDriverCreates THEN Len(handles) + 1 ELSE driver

HandlesAfterGet == IF GetDriverCreates THEN Append(handles, NewHandle) ELSE handles

\* The four queries of getNeo4jSchema, the one of runCypherQuery.
RoundTrips(kind) == IF kind = "schema" THEN 4 ELSE 1

WrapMsg(kind) ==
    IF kind = "schema" THEN "Failed to fetch Neo4j schema"
    ELSE "Failed to execute Cypher query"

\* runCypherQuery / getNeo4jSchema up to the first await: getDriver() outside
\* the try, then currentDriver.session() (sessionOk: it returned a session)
\* and the first session.run inside it.
SessionTask(kind, caller, sessionOk) ==
    IF GetDriverThrows
    THEN [NewTask(kind, caller) EXCEPT !.outcome = Threw(MissingConfig)]
    ELSE IF sessionOk
    THEN [NewTask(kind, caller) EXCEPT !.pc = "run", !.drv = DriverAfterGet,
              !.session = "open", !.opened = 1, !.runs = RoundTrips(kind)]
    ELSE [NewTask(kind, caller) EXCEPT !.drv = DriverAfterGet,
              !.outcome = Threw(<<WrapMsg(kind), "session refused">>)]

\* An awaited session.run settles: the next query, or the return, or the
\* catch; the finally block then awaits session.close().
AfterRunNoFinally(t, ok) ==
    IF ok /\ t.runs > 1 THEN [t EXCEPT !.runs = @ - 1]
    ELSE IF ok THEN [t EXCEPT !.runs = 0, !.pc = "closing", !.outcome = Ok]
    ELSE [t EXCEPT !.pc = "settled",
                   !.outcome = Threw(<<WrapMsg(t.kind), "store error">>)]

AfterRun(t, ok) ==
    IF ok /\ t.runs > 1 THEN [t EXCEPT !.runs = @ - 1]
    ELSE IF ok THEN [t EXCEPT !.runs = 0, !.pc = "closing", !.outcome = Ok]
    ELSE [t EXCEPT !.pc = "closing",
                   !.outcome = Threw(<<WrapMsg(t.kind), "store error">>)]

AfterSessionClose(t) == [t EXCEPT !.session = "closed", !.pc = "settled"]

\* closeDriver up to its await: if (driver) await driver.close().
CloseDriverTaskNoGuard(caller) ==
    IF driver # 0
    THEN [NewTask("close", caller) EXCEPT !.pc = "awaitClose", !.drv = driver]
    ELSE [NewTask("close", caller) EXCEPT
              !.outcome = Threw(<<"TypeError: Cannot read properties of null">>)]

CloseDriverTask(caller) ==
    IF driver # 0
    THEN [NewTask("close", caller) EXCEPT !.pc = "awaitClose", !.drv = driver]
    ELSE NewTask("close", caller)

HandlesAfterCloseCall ==
    IF driver # 0 THEN [handles EXCEPT ![driver].closeCalls = @ + 1] ELSE handles

\* checkNeo4jConnectivity up to its await.
CheckTask(caller) ==
    IF GetDriverThrows
    THEN [NewTask("check", caller) EXCEPT !.outcome = Threw(MissingConfig)]
    ELSE [NewTask("check", caller) EXCEPT !.pc = "verify", !.drv = DriverAfterGet]

AfterVerify(t, ok) ==
    IF ok THEN [t EXCEPT !.pc = "settled", !.outcome = Ok]
    ELSE [t EXCEPT !.pc = "settled",
                   !.outcome = Threw(<<"Neo4j connection failed", "unreachable">>)]

\* The tool handlers' try/catch: the text on success, the message and
\* isError on any error of the call.
HandlerPrefix(kind) ==
    IF kind = "schema" THEN "Error getting schema" ELSE "Error running query"

HandlerResponseNoCatch(kind, outcome) ==
    IF outcome.threw THEN NoResponse
    ELSE [sent |-> TRUE, isError |-> FALSE, text |-> <<"result">>]

HandlerResponse(kind, outcome) ==
    IF outcome.threw
    THEN [sent |-> TRUE, isError |-> TRUE,
          text |-> <<HandlerPrefix(kind)>> \o outcome.msg]
    ELSE [sent |-> TRUE, isError |-> FALSE, text |-> <<"result">>]

-----------------------------------------------------------------------------
(* The store's answers to the four introspection queries, for a store that  *)
(* holds count[l] nodes of label l (relationships of type l) whose property *)
(* keys are keys[l].                                                        *)

MaxNodes == 2
MaxRels == 1
MaxDomains == 2

NodeLabelUniverse == <<"Movie", "Event", "Song">>
RelTypeUniverse == <<"SUPPORTS", "DIRECTED">>
KeyLists == {<<>>, <<"name">>}
DomainStrings == {"code", "mind", "crypto", "media", "graph"}
DomainArrayStrings == {"crypto", "media", "graph"}

RECURSIVE TotalCount(_, _)
TotalCount(universe, s) ==
    IF universe = <<>> THEN 0
    ELSE s[Head(universe)].count + TotalCount(Tail(universe), s)

\* A store summary over a universe of names: how many instances carry each
\* name (at most max in all) and which property keys they have (none where
\* there is no instance).
Stores(universe, max) ==
    {s \in [SeqToSet(universe) -> [count : 0..max, keys : KeyLists]] :
        /\ \A l \in SeqToSet(universe) : s[l].count = 0 => s[l].keys = <<>>
        /\ TotalCount(universe, s) <= max}

\* The orders in which the names of S can be listed.
Orders(S) ==
    {s \in [1..Cardinality(S) -> S] :
        \A i, j \in 1..Cardinality(S) : s[i] = s[j] => i = j}

\* RETURN name, count(*) ORDER BY count DESC: one record for every name with
\* an instance, by descending count; the store is free in the order of
\* names of equal count. The answers the store may give, as lists of names.
ByCountDesc(universe, store) ==
    {s \in Orders({l \in SeqToSet(universe) : store[l].count > 0}) :
        \A i \in 1..(Len(s) - 1) : store[s[i]].count >= store[s[i + 1]].count}

LabelCountRecords(store) ==
    {[i \in 1..Len(names) |-> [label |-> names[i], count |-> store[names[i]].count]] :
        names \in ByCountDesc(NodeLabelUniverse, store)}

RelTypeCountRecords(store) ==
    {[i \in 1..Len(names) |-> [relType |-> names[i], count |-> store[names[i]].count]] :
        names \in ByCountDesc(RelTypeUniverse, store)}

\* UNWIND keys as key RETURN name, collect(DISTINCT key): one row for every
\* name whose instances have a property key, none for the others; the query
\* has no ORDER BY and the rows come in any order.
LabelPropertiesRecords(store) ==
    {[i \in 1..Len(names) |-> [label |-> names[i], properties |-> store[names[i]].keys]] :
        names \in Orders({l \in SeqToSet(NodeLabelUniverse) : store[l].keys # <<>>})}

RelTypePropertiesRecords(store) ==
    {[i \in 1..Len(names) |-> [relType |-> names[i], properties |-> store[names[i]].keys]] :
        names \in Orders({l \in SeqToSet(RelTypeUniverse) : store[l].keys # <<>>})}

RECURSIVE SeqsUpTo(_, _)
SeqsUpTo(S, n) ==
    IF n = 0 THEN {<<>>}
    ELSE LET shorter == SeqsUpTo(S, n - 1)
         IN shorter \cup {Append(s, x) : s \in shorter, x \in S}

DomainArgs ==
    {NoDomain}
        \cup {StringDomain(s) : s \in DomainStrings \cup {""}}
        \cup {ArrayDomain(a) : a \in SeqsUpTo(DomainArrayStrings, MaxDomains)}

MaxCalls == 3
MaxDepth == 2
MaxArrayLen == 2

Scalars == {Num(59), Num(32), Num(-32), Str("a"), Null}

RECURSIVE JsonValues(_)
JsonValues(depth) ==
    IF depth = 0 THEN Scalars
    ELSE LET inner == JsonValues(depth - 1)
         IN inner
              \cup {Obj(<<"x">>, <<w>>) : w \in inner}
              \cup {Arr(a) : a \in SeqsUpTo(inner, MaxArrayLen)}

\* {limit: <scalar>, nested: <value>}, and JSON texts with the key
\* "__proto__": {"__proto__": {x: <scalar>}, "limit": <scalar>}.
ParamsArgs ==
    {Obj(<<"limit", "nested">>, <<l, v>>) :
        l \in Scalars, v \in JsonValues(MaxDepth)}
      \cup {Obj(<<"__proto__", "limit">>, <<Obj(<<"x">>, <<w>>), l>>) :
                w \in Scalars, l \in Scalars}

SchemaInputs ==
    /\ \E ns \in Stores(NodeLabelUniverse, MaxNodes),
          rs \in Stores(RelTypeUniverse, MaxRels) :
        /\ nodeTypesResult \in LabelCountRecords(ns)
        /\ nodePropertiesResult \in LabelPropertiesRecords(ns)
        /\ relationshipTypesResult \in RelTypeCountRecords(rs)
        /\ relationshipPropertiesResult \in RelTypePropertiesRecords(rs)
    /\ domain \in DomainArgs

\* The store and the arguments of the calls made while the process is
\* followed step by step: one Event node with a name, media requested, and
\* the parameters {limit: 5.9}.
FixedSchemaInputs ==
    /\ nodeTypesResult = <<[label |-> "Event", count |-> 1]>>
    /\ nodePropertiesResult = <<[label |-> "Event", properties |-> <<"name">>]>>
    /\ relationshipTypesResult = <<>>
    /\ relationshipPropertiesResult = <<>>
    /\ domain = StringDomain("media")

\* A store with a node labelled "Zz" and one labelled "32", the rows of "Zz"
\* first, and no domain requested.
ArrayIndexInputs ==
    /\ nodeTypesResult = <<[label |-> "Zz", count |-> 1], [label |-> "32", count |-> 1]>>
    /\ nodePropertiesResult = <<[label |-> "Zz", properties |-> <<"name">>],
                                [label |-> "32", properties |-> <<"name">>]>>
    /\ relationshipTypesResult = <<>>
    /\ relationshipPropertiesResult = <<>>
    /\ domain = NoDomain

\* A store whose one node has the label "constructor".
PrototypeNameInputs ==
    /\ nodeTypesResult = <<[label |-> "constructor", count |-> 1]>>
    /\ nodePropertiesResult = <<[label |-> "constructor", properties |-> <<"name">>]>>
    /\ relationshipTypesResult = <<>>
    /\ relationshipPropertiesResult = <<>>
    /\ domain = StringDomain("media")

FixedParams == params = Obj(<<"limit">>, <<Num(59)>>)

NothingReturned ==
    /\ schemaOut = NoOutput /\ schemaPc = "idle"
    /\ submitted = Null /\ paramsPc = "idle"

NoCalls == driver = 0 /\ handles = <<>> /\ tasks = <<>>

-----------------------------------------------------------------------------
(* The steps of the calls. Synchronous code runs to its next await in one   *)
(* step; a settled call's caller resumes before any further event of the    *)
(* event loop (signal, request, answer of the store) is taken.              *)

Running == exitCode = -1

Drained == \A i \in 1..Len(tasks) : tasks[i].pc # "settled"

SetTask(i, t) == tasks' = [tasks EXCEPT ![i] = t]

\* Start a call: the task it becomes and what getDriver / closeDriver do to
\* the handle on the way.
StartSession(kind, caller, sessionOk) ==
    /\ tasks' = Append(tasks, SessionTask(kind, caller, sessionOk))
    /\ driver' = DriverAfterGet
    /\ handles' = HandlesAfterGet
    /\ IF kind = "query" /\ ~GetDriverThrows /\ sessionOk
       THEN submitted' = ProcessParams(params) /\ paramsPc' = "submitted"
       ELSE UNCHANGED <<submitted, paramsPc>>
    /\ UNCHANGED <<schemaVars, params, configOk>>

StartClose(caller) ==
    /\ tasks' = Append(tasks, CloseDriverTask(caller))
    /\ handles' = HandlesAfterCloseCall
    /\ UNCHANGED <<schemaVars, paramsVars, configOk, driver>>

StartCheck(caller) ==
    /\ tasks' = Append(tasks, CheckTask(caller))
    /\ driver' = DriverAfterGet
    /\ handles' = HandlesAfterGet
    /\ UNCHANGED <<schemaVars, paramsVars, configOk>>

\* session.run settles.
RunReturns ==
    \E i \in 1..Len(tasks), ok \in BOOLEAN :
        /\ Running /\ Drained
        /\ tasks[i].pc = "run"
        /\ IF ok /\ tasks[i].runs = 1 /\ tasks[i].kind = "schema"
           THEN LET result == GetNeo4jSchema(nodeTypesResult, nodePropertiesResult,
                                 relationshipTypesResult,
                                 relationshipPropertiesResult, domain)
                IN /\ SetTask(i, IF result.threw
                                  THEN [AfterRun(tasks[i], FALSE) EXCEPT
                                           !.outcome = Threw(result.msg)]
                                  ELSE AfterRun(tasks[i], TRUE))
                   /\ schemaOut' = result.value
                   /\ schemaPc' = IF result.threw THEN "threw" ELSE "returned"
           ELSE /\ SetTask(i, AfterRun(tasks[i], ok))
                /\ UNCHANGED <<schemaOut, schemaPc>>
        /\ UNCHANGED <<schemaInputs, paramsVars, configOk, driver, handles, serverVars>>

\* session.close() settles.
SessionCloseReturns ==
    \E i \in 1..Len(tasks) :
        /\ Running /\ Drained
        /\ tasks[i].pc = "closing"
        /\ SetTask(i, AfterSessionClose(tasks[i]))
        /\ UNCHANGED <<schemaVars, paramsVars, configOk, driver, handles, serverVars>>

\* driver.close() settles: driver = null.
DriverCloseReturns ==
    \E i \in 1..Len(tasks) :
        /\ Running /\ Drained
        /\ tasks[i].pc = "awaitClose"
        /\ SetTask(i, [tasks[i] EXCEPT !.pc = "settled"])
        /\ driver' = 0
        /\ handles' = [handles EXCEPT ![tasks[i].drv].closed = TRUE]
        /\ UNCHANGED <<schemaVars, paramsVars, configOk, serverVars>>

\* verifyConnectivity() settles.
VerifyReturns ==
    \E i \in 1..Len(tasks), ok \in BOOLEAN :
        /\ Running /\ Drained
        /\ tasks[i].pc = "verify"
        /\ SetTask(i, AfterVerify(tasks[i], ok))
        /\ UNCHANGED <<schemaVars, paramsVars, configOk, driver, handles, serverVars>>

-----------------------------------------------------------------------------
(* The module used directly: any of its exported functions is called, at    *)
(* any time, with the connection values set or not.                         *)

ExportedKinds == {"query", "schema", "close", "check"}

ClientInit ==
    /\ FixedSchemaInputs /\ FixedParams /\ NothingReturned
    /\ configOk \in BOOLEAN /\ NoCalls
    /\ mainPc = "off" /\ exitCode = -1

ClientCall ==
    \E kind \in ExportedKinds, sessionOk \in BOOLEAN :
        /\ mainPc = "off"
        /\ Len(tasks) < MaxCalls
        /\ CASE kind = "close" -> StartClose("client")
             [] kind = "check" -> StartCheck("client")
             [] OTHER -> StartSession(kind, "client", sessionOk)
        /\ UNCHANGED serverVars

\* The caller's await of a settled call resumes.
ClientContinue ==
    \E i \in 1..Len(tasks) :
        /\ tasks[i].pc = "settled" /\ tasks[i].caller = "client"
        /\ SetTask(i, [tasks[i] EXCEPT !.pc = "done"])
        /\ UNCHANGED <<schemaVars, paramsVars, configOk, driver, handles, serverVars>>

ClientNext ==
    \/ ClientCall
    \/ ClientContinue
    \/ RunReturns
    \/ SessionCloseReturns
    \/ DriverCloseReturns
    \/ VerifyReturns

SpecClient == ClientInit /\ [][ClientNext]_vars

\* The same, with room for two closeDriver calls to overlap a call made
\* before them and one made after the first of them has finished.
MaxOverlapCalls == 4

OverlapCall ==
    \E kind \in ExportedKinds, sessionOk \in BOOLEAN :
        /\ mainPc = "off"
        /\ Len(tasks) < MaxOverlapCalls
        /\ CASE kind = "close" -> StartClose("client")
             [] kind = "check" -> StartCheck("client")
             [] OTHER -> StartSession(kind, "client", sessionOk)
        /\ UNCHANGED serverVars

OverlapNext ==
    \/ OverlapCall
    \/ ClientContinue
    \/ RunReturns
    \/ SessionCloseReturns
    \/ DriverCloseReturns
    \/ VerifyReturns

SpecOverlap == ClientInit /\ [][OverlapNext]_vars

-----------------------------------------------------------------------------
(* runCypherQuery called once by a user of the module, over the parameter   *)
(* mappings above: the call followed from its start to the caller's         *)
(* resumption.                                                              *)

ParamsInit ==
    /\ FixedSchemaInputs /\ NothingReturned
    /\ params \in ParamsArgs
    /\ configOk = TRUE /\ NoCalls
    /\ mainPc = "off" /\ exitCode = -1

\* runCypherQuery(query, params) is called: getDriver(), processParams, the
\* session and session.run(query, processedParams), up to its await.
ParamsCall ==
    \E sessionOk \in BOOLEAN :
        /\ mainPc = "off"
        /\ tasks = <<>>
        /\ StartSession("query", "client", sessionOk)
        /\ UNCHANGED serverVars

ParamsNext ==
    \/ ParamsCall
    \/ ClientContinue
    \/ RunReturns
    \/ SessionCloseReturns

SpecParams == ParamsInit /\ [][ParamsNext]_vars

-----------------------------------------------------------------------------
(* getNeo4jSchema called once by a user of the module, followed from the    *)
(* call to the caller's resumption, over the stores and arguments above.    *)

SchemaInit ==
    /\ (SchemaInputs \/ PrototypeNameInputs \/ ArrayIndexInputs)
    /\ FixedParams /\ NothingReturned
    /\ configOk = TRUE /\ NoCalls
    /\ mainPc = "off" /\ exitCode = -1

\* getNeo4jSchema(domain) is called: getDriver(), the session and the first
\* session.run, up to its await.
SchemaCall ==
    \E sessionOk \in BOOLEAN :
        /\ mainPc = "off"
        /\ tasks = <<>>
        /\ StartSession("schema", "client", sessionOk)
        /\ UNCHANGED serverVars

SchemaNext ==
    \/ SchemaCall
    \/ ClientContinue
    \/ RunReturns
    \/ SessionCloseReturns

SpecSchema == SchemaInit /\ [][SchemaNext]_vars

-----------------------------------------------------------------------------
(* The server process: main, the two tool handlers and cleanup. *)

Init ==
    /\ (FixedSchemaInputs \/ PrototypeNameInputs \/ ArrayIndexInputs)
    /\ FixedParams /\ NothingReturned
    /\ configOk \in BOOLEAN /\ NoCalls
    /\ mainPc = "start" /\ exitCode = -1

\* main calls checkNeo4jConnectivity().
MainStart ==
    /\ Running /\ mainPc = "start"
    /\ StartCheck("main")
    /\ mainPc' = "verifying"
    /\ UNCHANGED exitCode

\* main resumes after the check: process.exit(1) from the catch, or the
\* tools are registered, the signal handlers installed and server.connect
\* is awaited.
MainAfterCheckNoExit ==
    \E i \in 1..Len(tasks) :
        /\ Running
        /\ tasks[i].pc = "settled" /\ tasks[i].caller = "main"
        /\ tasks[i].kind = "check"
        /\ SetTask(i, [tasks[i] EXCEPT !.pc = "done"])
        /\ mainPc' = "connecting" /\ UNCHANGED exitCode
        /\ UNCHANGED <<schemaVars, paramsVars, configOk, driver, handles>>

MainAfterCheck ==
    \E i \in 1..Len(tasks) :
        /\ Running
        /\ tasks[i].pc = "settled" /\ tasks[i].caller = "main"
        /\ tasks[i].kind = "check"
        /\ SetTask(i, [tasks[i] EXCEPT !.pc = "done"])
        /\ IF tasks[i].outcome.threw
           THEN exitCode' = 1 /\ UNCHANGED mainPc
           ELSE mainPc' = "connecting" /\ UNCHANGED exitCode
        /\ UNCHANGED <<schemaVars, paramsVars, configOk, driver, handles>>

\* server.connect(transport) settles: ready, or the catch awaits closeDriver().
ConnectReturns ==
    \E ok \in BOOLEAN :
        /\ Running /\ Drained
        /\ mainPc = "connecting"
        /\ IF ok
           THEN /\ mainPc' = "serving"
                /\ UNCHANGED <<schemaVars, paramsVars, clientVars>>
           ELSE /\ mainPc' = "closingOnFail"
                /\ StartClose("main")
        /\ UNCHANGED exitCode

\* ... and then process.exit(1).
MainAfterClose ==
    \E i \in 1..Len(tasks) :
        /\ Running
        /\ tasks[i].pc = "settled" /\ tasks[i].caller = "main"
        /\ tasks[i].kind = "close"
        /\ SetTask(i, [tasks[i] EXCEPT !.pc = "done"])
        /\ exitCode' = 1
        /\ UNCHANGED <<schemaVars, paramsVars, configOk, driver, handles, mainPc>>

SignalsInstalled == mainPc \in {"connecting", "serving", "closingOnFail"}

\* SIGINT or SIGTERM: cleanup starts and awaits closeDriver().
Signal ==
    /\ Running /\ Drained
    /\ SignalsInstalled
    /\ Len(tasks) < MaxCalls
    /\ StartClose("cleanup")
    /\ UNCHANGED serverVars

\* cleanup resumes: transport.close(), server.close(), process.exit(0).
CleanupExit ==
    \E i \in 1..Len(tasks) :
        /\ Running
        /\ tasks[i].pc = "settled" /\ tasks[i].caller = "cleanup"
        /\ SetTask(i, [tasks[i] EXCEPT !.pc = "done"])
        /\ exitCode' = 0
        /\ UNCHANGED <<schemaVars, paramsVars, configOk, driver, handles, mainPc>>

\* A tool request arrives: its handler calls getNeo4jSchema / runCypherQuery.
Request ==
    \E kind \in {"schema", "query"}, sessionOk \in BOOLEAN :
        /\ Running /\ Drained
        /\ mainPc = "serving"
        /\ Len(tasks) < MaxCalls
        /\ StartSession(kind, "tool", sessionOk)
        /\ UNCHANGED serverVars

\* The handler resumes after its call and returns the response.
HandlerReturn ==
    \E i \in 1..Len(tasks) :
        /\ Running
        /\ tasks[i].pc = "settled" /\ tasks[i].caller = "tool"
        /\ SetTask(i, [tasks[i] EXCEPT
                          !.pc = "done",
                          !.response = HandlerResponse(tasks[i].kind, tasks[i].outcome)])
        /\ UNCHANGED <<schemaVars, paramsVars, configOk, driver, handles, serverVars>>

Next ==
    \/ MainStart
    \/ MainAfterCheck
    \/ ConnectReturns
    \/ MainAfterClose
    \/ Signal
    \/ CleanupExit
    \/ Request
    \/ HandlerReturn
    \/ RunReturns
    \/ SessionCloseReturns
    \/ DriverCloseReturns
    \/ VerifyReturns

Spec == Init /\ [][Next]_vars

-----------------------------------------------------------------------------
(* Vocabulary of the schema claims, stated on the call's inputs and output. *)

TypeNames(types) == [i \in 1..Len(types) |-> types[i].type]

\* The requested identifiers as a list (none when the argument is absent).
RequestedList ==
    IF domain.kind = "array" THEN domain.arr
    ELSE IF domain.kind = "string" THEN <<domain.str>> ELSE <<>>

RequestedValid == SeqToSet(RequestedList) \cap KnownDomains

\* The call has returned and its caller has the output.
OutputReceived ==
    /\ schemaPc = "returned"
    /\ \E i \in 1..Len(tasks) :
         tasks[i].kind = "schema" /\ tasks[i].pc = "done" /\ ~tasks[i].outcome.threw

Scoped == OutputReceived /\ RequestedValid # {}

Unscoped == OutputReceived /\ RequestedValid = {}

TaxonomyNames(table) == UNION {SeqToSet(table[d]) : d \in RequestedValid}

\* The live TypeCount lists and PropertyIndexes as the store reported them.
LiveNodeTypes ==
    [i \in 1..Len(nodeTypesResult) |->
        [type |-> nodeTypesResult[i].label, count |-> nodeTypesResult[i].count]]

LiveRelationshipTypes ==
    [i \in 1..Len(relationshipTypesResult) |->
        [type |-> relationshipTypesResult[i].relType,
         count |-> relationshipTypesResult[i].count]]

LiveNodeProperties ==
    [i \in 1..Len(nodePropertiesResult) |->
        [key |-> nodePropertiesResult[i].label,
         value |-> nodePropertiesResult[i].properties]]

LiveRelationshipProperties ==
    [i \in 1..Len(relationshipPropertiesResult) |->
        [key |-> relationshipPropertiesResult[i].relType,
         value |-> relationshipPropertiesResult[i].properties]]

LiveCount(types, n) ==
    IF \E i \in 1..Len(types) : types[i].type = n
    THEN types[CHOOSE i \in 1..Len(types) : types[i].type = n].count
    ELSE 0

LivePropertySet(index, n) ==
    UNION {SeqToSet(index[i].value) : i \in {j \in 1..Len(index) : index[j].key = n}}

Occurrences(names, n) == Cardinality({i \in 1..Len(names) : names[i] = n})

FourKeys == <<"nodeTypes", "nodeProperties",
              "relationshipTypes", "relationshipProperties">>

\* C1: in every output of getNeo4jSchema the names of nodeTypes are exactly
\* the keys of nodeProperties, and the names of relationshipTypes are exactly
\* the keys of relationshipProperties.
C1_OrphanFree ==
    OutputReceived =>
        /\ SeqToSet(TypeNames(schemaOut.nodeTypes))
              = SeqToSet(ObjKeys(schemaOut.nodeProperties))
        /\ SeqToSet(TypeNames(schemaOut.relationshipTypes))
              = SeqToSet(ObjKeys(schemaOut.relationshipProperties))

\* C2: with at least one valid requested domain, every taxonomy name of a
\* requested valid domain is in the output, with its live count and live
\* property set when the store reports it and with count 0 and no property
\* otherwise.
ZeroFilled(table, liveTypes, liveIndex, outTypes, outIndex) ==
    LET withLiveCount ==
            {outTypes[i].type : i \in {j \in 1..Len(outTypes) :
                outTypes[j].count = LiveCount(liveTypes, outTypes[j].type)}}
        withLiveProperties ==
            {outIndex[i].key : i \in {j \in 1..Len(outIndex) :
                SeqToSet(outIndex[j].value) = LivePropertySet(liveIndex, outIndex[j].key)}}
    IN /\ TaxonomyNames(table) \subseteq withLiveCount
       /\ TaxonomyNames(table) \subseteq withLiveProperties

C2_ZeroFill ==
    Scoped =>
        /\ ZeroFilled(DOMAIN_NODE_TYPES, LiveNodeTypes, LiveNodeProperties,
                      schemaOut.nodeTypes, schemaOut.nodeProperties)
        /\ ZeroFilled(DOMAIN_RELATIONSHIP_TYPES, LiveRelationshipTypes,
                      LiveRelationshipProperties,
                      schemaOut.relationshipTypes, schemaOut.relationshipProperties)

\* The spec's zero-fill case: an empty store and domain "code".
C2_Witness ==
    /\ OutputReceived
    /\ domain = StringDomain("code")
    /\ nodeTypesResult = <<>> /\ relationshipTypesResult = <<>>
    /\ Len(schemaOut.nodeTypes) = Len(DOMAIN_NODE_TYPES.code)
    /\ Len(schemaOut.relationshipProperties) = Len(DOMAIN_RELATIONSHIP_TYPES.code)
    /\ \A i \in 1..Len(schemaOut.nodeTypes) : schemaOut.nodeTypes[i].count = 0

\* The names that two different requested valid domains both declare.
SharedNames(table) ==
    UNION {SeqToSet(table[p[1]]) \cap SeqToSet(table[p[2]]) :
             p \in {q \in RequestedValid \X RequestedValid : q[1] # q[2]}}

\* C3: in a scoped output a name declared by two or more of the requested
\* domains is the name of exactly one TypeCount entry and exactly one
\* PropertyIndex key.
SharedOnce(table, outTypes, outIndex) ==
    LET typeNames == TypeNames(outTypes)
        keys == ObjKeys(outIndex)
    IN \A n \in SharedNames(table) :
          /\ Occurrences(typeNames, n) = 1
          /\ Occurrences(keys, n) = 1

C3_SharedNameOnce ==
    Scoped =>
        /\ SharedOnce(DOMAIN_NODE_TYPES,
                      schemaOut.nodeTypes, schemaOut.nodeProperties)
        /\ SharedOnce(DOMAIN_RELATIONSHIP_TYPES,
                      schemaOut.relationshipTypes, schemaOut.relationshipProperties)

\* crypto and media both declare "Event" and "SUPPORTS"; the store reports
\* "SUPPORTS" and not "Event".
C3_Witness ==
    /\ OutputReceived
    /\ domain = ArrayDomain(<<"crypto", "media">>)
    /\ ~InSeq("Event", TypeNames(LiveNodeTypes))
    /\ InSeq("SUPPORTS", TypeNames(LiveRelationshipTypes))
    /\ Occurrences(TypeNames(schemaOut.nodeTypes), "Event") = 1
    /\ Occurrences(TypeNames(schemaOut.relationshipTypes), "SUPPORTS") = 1

\* Two PropertyIndexes are the same mapping: the same names, each once,
\* with the same properties (the order of the names is not part of it).
SameIndex(a, b) ==
    /\ NoDup(ObjKeys(a)) /\ NoDup(ObjKeys(b))
    /\ SeqToSet(ObjKeys(a)) = SeqToSet(ObjKeys(b))
    /\ \A k \in SeqToSet(ObjKeys(a)) : ObjGet(a, k) = ObjGet(b, k)

\* C4: with the domain absent, empty, or holding only unknown identifiers,
\* the output is exactly the live lists, in store order, and the live
\* indexes, and has no domains field.
C4_NoScopeIdentity ==
    Unscoped =>
        /\ schemaOut.keys = FourKeys
        /\ schemaOut.nodeTypes = LiveNodeTypes
        /\ SameIndex(schemaOut.nodeProperties, LiveNodeProperties)
        /\ schemaOut.relationshipTypes = LiveRelationshipTypes
        /\ SameIndex(schemaOut.relationshipProperties, LiveRelationshipProperties)

\* A call with only an unknown domain on a store that holds something.
C4_Witness ==
    /\ OutputReceived
    /\ domain = ArrayDomain(<<"graph">>)
    /\ Len(nodeTypesResult) >= 2 /\ nodePropertiesResult # <<>>
    /\ schemaOut.nodeTypes = LiveNodeTypes
    /\ ~InSeq("domains", schemaOut.keys)

\* C5: in a scoped output the domains field is the requested list without
\* its unknown identifiers, order and repetitions kept, while the names of
\* the TypeCount lists and the keys of the PropertyIndexes hold no name twice.
C5_DomainEcho ==
    Scoped =>
        /\ schemaOut.keys = <<"domains">> \o FourKeys
        /\ schemaOut.domains = SelectSeq(RequestedList, LAMBDA d : d \in KnownDomains)
        /\ NoDup(TypeNames(schemaOut.nodeTypes))
        /\ NoDup(ObjKeys(schemaOut.nodeProperties))
        /\ NoDup(TypeNames(schemaOut.relationshipTypes))
        /\ NoDup(ObjKeys(schemaOut.relationshipProperties))

\* A repeated valid identifier is echoed twice.
C5_Witness ==
    /\ OutputReceived
    /\ domain = ArrayDomain(<<"media", "media">>)
    /\ schemaOut.domains = <<"media", "media">>
    /\ Len(schemaOut.nodeTypes) = Len(DOMAIN_NODE_TYPES.media)

\* C6: a scoped output holds no name outside the union of the requested
\* taxonomies; its TypeCount lists are the live entries of the union, with
\* their live counts and in store order, followed by the zero entries in
\* order of first occurrence in the requested taxonomies.
RequestedTaxonomy(table) ==
    Gather(table, SelectSeq(RequestedList, LAMBDA d : d \in KnownDomains))

\* The names of the requested taxonomies in order of first occurrence.
FirstOccurrences(table) == SetSpread(RequestedTaxonomy(table))

LiveThenZero(table, liveTypes, outTypes, outIndex) ==
    LET union == TaxonomyNames(table)
        kept == SelectSeq(liveTypes, LAMBDA e : e.type \in union)
        k == Len(kept)
        liveNames == SeqToSet(TypeNames(liveTypes))
        absent == SelectSeq(FirstOccurrences(table), LAMBDA n : n \notin liveNames)
    IN /\ SeqToSet(TypeNames(outTypes)) \subseteq union
       /\ SeqToSet(ObjKeys(outIndex)) \subseteq union
       /\ Len(outTypes) = k + Len(absent)
       /\ SubSeq(outTypes, 1, k) = kept
       /\ SubSeq(outTypes, k + 1, Len(outTypes))
             = [i \in 1..Len(absent) |-> [type |-> absent[i], count |-> 0]]

C6_TaxonomyGates ==
    Scoped =>
        /\ LiveThenZero(DOMAIN_NODE_TYPES, LiveNodeTypes,
                        schemaOut.nodeTypes, schemaOut.nodeProperties)
        /\ LiveThenZero(DOMAIN_RELATIONSHIP_TYPES, LiveRelationshipTypes,
                        schemaOut.relationshipTypes, schemaOut.relationshipProperties)

\* The store reports "Movie" (in no taxonomy), then "Event" and "Song" in
\* the reverse of their order in the media taxonomy, and "DIRECTED" (in no
\* taxonomy).
C6_Witness ==
    /\ OutputReceived
    /\ domain = ArrayDomain(<<"media", "crypto">>)
    /\ InSeq("DIRECTED", TypeNames(LiveRelationshipTypes))
    /\ \/ /\ TypeNames(LiveNodeTypes) = <<"Event", "Song">>
          /\ SubSeq(TypeNames(schemaOut.nodeTypes), 1, 3) = <<"Event", "Song", "Artist">>
       \/ /\ TypeNames(LiveNodeTypes) = <<"Movie", "Event">>
          /\ SubSeq(TypeNames(schemaOut.nodeTypes), 1, 2) = <<"Event", "Artist">>
    /\ ~InSeq("DIRECTED", ObjKeys(schemaOut.relationshipProperties))

-----------------------------------------------------------------------------
(* Claims about runCypherQuery's parameters. *)

\* Every number, at any depth, replaced by the integer floor of its value.
RECURSIVE Normalised(_)
Normalised(value) ==
    IF value.t = "num" THEN Integer(value.n \div 10)
    ELSE IF value.t \in {"obj", "arr"}
    THEN [value EXCEPT !.kids = [i \in 1..Len(value.kids) |-> Normalised(value.kids[i])]]
    ELSE value

\* C7: the mapping submitted to the store is the params mapping with every
\* numeric value at any nesting depth replaced by its integer floor and
\* every other value unchanged.
C7_DeepFloor == paramsPc = "submitted" => submitted = Normalised(params)

-----------------------------------------------------------------------------
(* Claims about sessions, the tool handlers and closeDriver. *)

UsesSession(t) == t.kind \in {"query", "schema"}

Completed(t) == t.pc \in {"settled", "done"}

\* C8: a call of runCypherQuery or getNeo4jSchema opens at most one session,
\* and once the call has completed, by returning or by raising, the session
\* it opened is closed.
C8_SessionReleased ==
    \A i \in 1..Len(tasks) :
        /\ tasks[i].opened <= 1
        /\ tasks[i].opened = 0 => tasks[i].session = "none"
        /\ ~UsesSession(tasks[i]) => tasks[i].opened = 0
        /\ Completed(tasks[i]) => tasks[i].session # "open"

\* A schema call that failed in a round trip and a query call that returned
\* have both completed with their sessions closed.
C8_Witness ==
    /\ \E i \in 1..Len(tasks) :
          /\ tasks[i].kind = "schema" /\ tasks[i].pc = "done"
          /\ tasks[i].outcome.threw /\ tasks[i].session = "closed"
    /\ \E j \in 1..Len(tasks) :
          /\ tasks[j].kind = "query" /\ tasks[j].pc = "done"
          /\ ~tasks[j].outcome.threw /\ tasks[j].session = "closed"

\* C9: whatever error a tool's call raises, the handler returns a response
\* with a message and isError = true, and returning it neither ends the
\* process nor takes it out of serving.
C9_Responded ==
    \A i \in 1..Len(tasks) :
        (tasks[i].caller = "tool" /\ tasks[i].pc = "done") =>
            /\ tasks[i].response.sent
            /\ tasks[i].response.isError = tasks[i].outcome.threw
            /\ tasks[i].outcome.threw =>
                 /\ Len(tasks[i].response.text) >= 2
                 /\ tasks[i].response.text[1] \in
                      {"Error getting schema", "Error running query"}

C9_KeepsServing ==
    \A i \in 1..Len(tasks) :
        (tasks[i].caller = "tool" /\ tasks[i].pc = "settled"
            /\ tasks'[i].pc = "done") =>
                exitCode' = exitCode /\ mainPc' = mainPc

C9_HandlerCatches == [](C9_Responded) /\ [][C9_KeepsServing]_vars

\* One request was answered with isError = true, and a request that came
\* after it was answered with a result.
C9_Witness ==
    \E i, j \in 1..Len(tasks) :
        /\ i < j
        /\ tasks[i].caller = "tool" /\ tasks[i].pc = "done"
        /\ tasks[i].response.isError
        /\ tasks[j].caller = "tool" /\ tasks[j].pc = "done"
        /\ tasks[j].response.sent /\ ~tasks[j].response.isError
        /\ exitCode = -1

\* C10: a call of closeDriver made while no handle is held completes at once
\* without an error, invokes no close and leaves the handle state as it was.
CloseStarts == Len(tasks') = Len(tasks) + 1 /\ tasks'[Len(tasks')].kind = "close"

C10_CloseIsNoop ==
    [][(CloseStarts /\ driver = 0) =>
          /\ driver' = 0
          /\ handles' = handles
          /\ tasks'[Len(tasks')].pc = "settled"
          /\ tasks'[Len(tasks')].drv = 0
          /\ ~tasks'[Len(tasks')].outcome.threw]_vars

\* closeDriver closed the handle a call had created, and the closeDriver
\* called next found none: it completed and the handle was closed once.
C10_Witness ==
    \E i \in 1..Len(tasks) :
        /\ i + 1 <= Len(tasks)
        /\ tasks[i].kind = "close" /\ tasks[i].pc = "done" /\ tasks[i].drv # 0
        /\ tasks[i + 1].kind = "close" /\ tasks[i + 1].pc = "done"
        /\ tasks[i + 1].drv = 0 /\ ~tasks[i + 1].outcome.threw
        /\ handles[tasks[i].drv] = [closeCalls |-> 1, closed |-> TRUE]
        /\ driver = 0

-----------------------------------------------------------------------------
(* Claims about shutdown, startup and the shared handle. *)

Created == 1..Len(handles)

\* C11: whatever the interleaving of cleanup runs (SIGINT, SIGTERM) with each
\* other and with requests in flight, close is invoked on a created handle
\* never twice, and exactly once by the time cleanup has ended the process.
C11_ClosedExactlyOnce ==
    /\ \A h \in Created : handles[h].closeCalls <= 1
    /\ exitCode = 0 => \A h \in Created : handles[h].closeCalls = 1

StartupCheck(t) == t.caller = "main" /\ t.kind = "check"

StartupFailed ==
    \E i \in 1..Len(tasks) :
        StartupCheck(tasks[i]) /\ Completed(tasks[i]) /\ tasks[i].outcome.threw

StartupSucceeded ==
    \E i \in 1..Len(tasks) :
        StartupCheck(tasks[i]) /\ tasks[i].pc = "done" /\ ~tasks[i].outcome.threw

ToolRegistered == mainPc \in {"connecting", "serving", "closingOnFail"}

Handled == \E i \in 1..Len(tasks) : tasks[i].caller = "tool"

\* A call of a tool fails: its session.run rejects, or it is answered
\* with the error it raised.
CallFails(i) ==
    /\ i \in 1..Len(tasks) /\ tasks[i].caller = "tool"
    /\ Len(tasks') = Len(tasks)
    /\ \/ ~tasks[i].outcome.threw /\ tasks'[i].outcome.threw
       \/ tasks[i].outcome.threw /\ tasks[i].pc = "settled" /\ tasks'[i].pc = "done"

\* C12: with a connection value missing, or the startup verification
\* failing, the process exits with status 1 before a tool is registered or
\* the transport connected, and no request is ever handled; once startup
\* has succeeded, a failure during a call is answered for that call alone
\* and the process keeps running.
C12_StartupState ==
    /\ (~configOk /\ mainPc # "start") => StartupFailed
    /\ StartupFailed =>
          /\ ~ToolRegistered /\ ~Handled
          /\ exitCode \in {-1, 1}
          /\ \A i \in 1..Len(tasks) :
                (StartupCheck(tasks[i]) /\ tasks[i].pc = "done") => exitCode = 1
    /\ (ToolRegistered \/ Handled) => StartupSucceeded

C12_ExitsAtOnce == (StartupFailed /\ Running) => exitCode' = 1

C12_FailureIsLocal ==
    \A i \in 1..Len(tasks) :
        CallFails(i) =>
            /\ exitCode' = -1 /\ mainPc' = "serving"
            /\ driver' = driver
            /\ \A j \in 1..Len(tasks) : j # i => tasks'[j] = tasks[j]
            /\ tasks'[i].pc = "done" =>
                  tasks'[i].response.sent /\ tasks'[i].response.isError

C12_FailFastThenLocal ==
    /\ [](C12_StartupState)
    /\ [][C12_ExitsAtOnce /\ C12_FailureIsLocal]_vars

\* After a successful startup a call failed on the store and was answered
\* with the error, the process still serving and the handle still held.
C12_Witness ==
    /\ StartupSucceeded /\ mainPc = "serving" /\ exitCode = -1
    /\ driver # 0
    /\ \E i \in 1..Len(tasks) :
          /\ tasks[i].caller = "tool" /\ tasks[i].pc = "done"
          /\ tasks[i].outcome.threw /\ tasks[i].response.isError
          /\ tasks[i].session = "closed"

\* C13: the handle is one shared resource, created when none is held and
\* reused: the held handle is the one created last, every created handle
\* that has not been closed is the held one (so there is at most one, and
\* the module has not dropped it), and every call in progress on a handle
\* that has not been closed is on the held one.
C13_SingleSharedHandle ==
    /\ driver \in {0, Len(handles)}
    /\ \A h \in Created : ~handles[h].closed => driver = h
    /\ \A i \in 1..Len(tasks) :
          (tasks[i].drv # 0 /\ ~handles[tasks[i].drv].closed) =>
              tasks[i].drv = driver

\* C14: on every path on which the process exits after getDriver has
\* created a handle (startup verification failure, transport connect
\* failure, cleanup on SIGINT / SIGTERM), closeDriver has completed on that
\* handle when process.exit is reached.
C14_ClosedBeforeExit ==
    ~Running =>
        \A h \in Created :
            /\ handles[h].closed
            /\ \E i \in 1..Len(tasks) :
                  /\ tasks[i].kind = "close" /\ tasks[i].drv = h
                  /\ Completed(tasks[i])

====
